---- MODULE Spec2Model ----
(***************************************************************************)
(* Session-scoped Spotify credential cache and authorization flow of       *)
(* spotify_gemini_streamlit.py.                                            *)
(*                                                                         *)
(* One script run of a session (main(), the assistant's construction       *)
(* included) is one step.  st.session_state is a separate bag for every    *)
(* session; the provider (code exchange, refresh, profile fetch) and the   *)
(* user's widget input are the nondeterministic inputs of a run.  Time is  *)
(* counted in units of half the auth manager's expiry margin.              *)
(***************************************************************************)
EXTENDS Integers, Sequences, FiniteSets, TLC

Sessions == {"s1", "s2"}

\* ---- bounds of the model
MaxTime == 5          \* the clock stops advancing here
MaxCodes == 2         \* authorization codes the provider hands out
MaxAttempts == 3      \* the provider may turn down at most this many refreshes of a run
MaxQuestions == 2     \* questions a session puts to the chat

\* ---- provider / library figures, in model time units
Margin == 2           \* SpotifyOAuth.is_token_expired: expires_at - now < 60 s
TokenLife == 4        \* expires_in of a record the provider issues (3600 s)

VARIABLES
    now,          \* time.time()
    secrets,      \* st.secrets / os.environ of the deployment
    token,        \* st.session_state.spotify_token, per session
    assistant,    \* st.session_state.assistant, per session
    user,         \* st.session_state.user_name / user_image / user_id, per session
    params,       \* the query parameters of the session's URL
    pending,      \* st.rerun() was called: the script is about to run again
    issued,       \* authorization codes handed out so far
    run,          \* what the session's latest script run did
    loggedOut,    \* the session logged out and has not exchanged a code since
    lastMut,      \* the session's latest put or clear of the credential cache
    actor,        \* the session that took the latest step, or "clock"
    cache_file,   \* the file .spotify_cache in the server's working directory
    client,       \* per session: the SpotifyClient (minimal client) it built
    inp,          \* the arguments of a function applied on its own
    out,          \* and what the function returned
    messages,     \* st.session_state.messages, per session: the chat transcript
    asked         \* questions the session's chat has processed

vars == <<now, secrets, token, assistant, user, params, pending, issued, run,
          loggedOut, lastMut, actor, cache_file, client, inp, out, messages,
          asked>>

\* The chat of every session.
chat == <<messages, asked>>

\* What the script runs of the main application leave alone.
aux == <<cache_file, client, inp, out>>

\* ---- values of a session_state slot
NoKey == [kind |-> "nokey"]                 \* key not in st.session_state
None == [kind |-> "none"]                   \* Python None
Rec(e) == [kind |-> "rec", exp |-> e]       \* token_info with expires_at = e
IsRec(t) == t.kind = "rec"
NoCode == 0

\* The latest mutation of a session's cache, and what get() is to return
\* after it.
NoMut == [kind |-> "none", rec |-> None]
Put(r) == [kind |-> "put", rec |-> r]
Clear == [kind |-> "clear", rec |-> None]
Expected(m) == IF m.kind = "put" THEN m.rec ELSE None

\* ======================= StreamlitSessionCacheHandler =====================
\* ss is the spotify_token slot of every session; s is the session whose
\* script is running (st.session_state resolves to that session's bag).

CacheInit_reset(ss, s) == [ss EXCEPT ![s] = None]

CacheInit(ss, s) ==
    IF ss[s] = NoKey THEN [ss EXCEPT ![s] = None] ELSE ss

get_cached_token(ss, s) == ss[s]

save_token_to_cache_once(ss, s, token_info) ==
    IF ss[s] = None THEN [ss EXCEPT ![s] = token_info] ELSE ss

save_token_to_cache_shared(ss, s, token_info) == [t \in Sessions |-> token_info]

save_token_to_cache(ss, s, token_info) == [ss EXCEPT ![s] = token_info]

clear_token_noop(ss, s) == ss

clear_token(ss, s) ==
    IF ss[s] # NoKey THEN [ss EXCEPT ![s] = None] ELSE ss

\* get() of the Credential Cache as a caller sees it: a handler is constructed
\* first (every call site does), then asked.
Get(ss, s) == get_cached_token(CacheInit(ss, s), s)

\* Sequencing of the steps of a run: F applied to the value of x.
Then(x, F(_)) == CHOOSE r \in {F(v) : v \in {x}} : TRUE

\* ================= spotipy auth manager, as the source uses it =============
\* The context c of a running script: tok (the spotify_token slot of every
\* session), par (query parameters), usr, obj (the assistant object under
\* construction or stored), log (what this run did), flow ("go", or how the
\* run ended: "stop", "rerun", "return"), raised (the last call raised).

is_token_expired(token_info) == token_info.exp - now < Margin

\* auth_manager.refresh_access_token(refresh_token): the provider accepts the
\* run's okFrom-th attempt and every later one; an accepted refresh returns a
\* new record, which the auth manager also stores through its cache handler;
\* a rejected one raises.
refresh_access_token(c, s, okFrom) ==
    LET old == get_cached_token(c.tok, s)
        n == c.log.fails + c.log.oks + 1
        fresh == Rec(now + TokenLife)
    IN  IF n >= okFrom
        THEN [c EXCEPT !.tok = save_token_to_cache(c.tok, s, fresh),
                       !.mut = Put(fresh), !.raised = FALSE, !.ret = fresh,
                       !.log.oks = @ + 1, !.log.rleft = old.exp - now,
                       !.log.newrec = fresh]
        ELSE [c EXCEPT !.raised = TRUE,
                       !.log.fails = @ + 1, !.log.rleft = old.exp - now]

\* auth_manager.get_access_token(code): xo is the provider's answer.  "ok"
\* returns a new record (stored by the auth manager as well), "empty" returns
\* a falsy token_info, "raise" raises (expired or invalid code).
get_access_token(c, s, xo) ==
    LET fresh == Rec(now + TokenLife)
    IN  CASE xo = "ok" ->
               [c EXCEPT !.tok = save_token_to_cache(c.tok, s, fresh),
                         !.mut = Put(fresh), !.raised = FALSE, !.ret = fresh]
          [] xo = "empty" -> [c EXCEPT !.raised = FALSE, !.ret = None]
          [] OTHER -> [c EXCEPT !.raised = TRUE, !.ret = None]

\* A request of a client built with spotipy.Spotify(auth=<access token>): the
\* token is sent as it is.
sp_request_static(c, s, okFrom) ==
    LET t == get_cached_token(c.tok, s)
    IN  IF ~IsRec(t)
        THEN [c EXCEPT !.raised = TRUE, !.log.calls = @ + 1]
        ELSE [c EXCEPT !.raised = FALSE, !.log.calls = @ + 1, !.log.sent = TRUE]

\* A request of self.sp = spotipy.Spotify(auth_manager=auth_manager): the
\* client asks the auth manager for the access token before every request;
\* the auth manager reads the cached record, refreshes it when
\* is_token_expired, and raises when there is no record or the refresh is
\* rejected (no request is sent then).
sp_request(c, s, okFrom) ==
    LET t == get_cached_token(c.tok, s)
    IN  IF ~IsRec(t)
        THEN [c EXCEPT !.raised = TRUE, !.log.calls = @ + 1]
        ELSE IF is_token_expired(t)
        THEN LET r == refresh_access_token(c, s, okFrom)
             IN  IF r.raised
                 THEN [r EXCEPT !.log.calls = @ + 1]
                 ELSE [r EXCEPT !.log.calls = @ + 1, !.log.sent = TRUE]
        ELSE [c EXCEPT !.raised = FALSE, !.log.calls = @ + 1, !.log.sent = TRUE]

\* Bookkeeping of a Spotify API call made from context c with result r: the
\* call is stale when the cached record's expires_at had passed (was not
\* after now) at the call and no refresh was attempted for it.
Observed(c, s, r) ==
    LET t == get_cached_token(c.tok, s)
        attempted == r.log.fails + r.log.oks > c.log.fails + c.log.oks
    IN  [r EXCEPT !.log.stale = @ \/ (IsRec(t) /\ t.exp <= now /\ ~attempted)]

\* ======================== SpotifyGeminiAssistant ==========================
\* st.session_state.messages as the pages read it: the roles of its
\* entries, in order; empty while the key is missing.
NoMessages == <<>>
NoUser == [name |-> "NoKey", image |-> "NoKey", id |-> "NoKey"]
NoObj == [kind |-> "nokey"]
Obj(auth) == [kind |-> "obj", is_authenticated |-> auth, sp |-> auth]

\* _setup_spotify, step 1: the URL carries ?code=...
ExchangeStep_nocatch(c, s, xo) ==
    LET r == get_access_token(c, s, xo)
    IN  IF r.raised
        THEN [r EXCEPT !.log.error = TRUE, !.log.exchange = "raise",
                       !.flow = "stop"]
        ELSE IF IsRec(r.ret)
        THEN [r EXCEPT !.tok = save_token_to_cache(r.tok, s, r.ret),
                       !.mut = Put(r.ret),
                       !.log.exchange = "ok", !.par = NoCode, !.flow = "rerun"]
        ELSE [r EXCEPT !.log.error = TRUE, !.log.exchange = "empty"]

ExchangeStep(c, s, xo) ==
    LET r == get_access_token(c, s, xo)
    IN  IF r.raised
        THEN \* except Exception: st.error, debug information, carry on
             [r EXCEPT !.log.error = TRUE, !.log.exchange = "raise",
                       !.raised = FALSE]
        ELSE IF IsRec(r.ret)
        THEN \* save, st.success, clear the query parameters, st.rerun()
             [r EXCEPT !.tok = save_token_to_cache(r.tok, s, r.ret),
                       !.mut = Put(r.ret),
                       !.log.exchange = "ok", !.par = NoCode, !.flow = "rerun"]
        ELSE [r EXCEPT !.log.error = TRUE, !.log.exchange = "empty"]

\* _setup_spotify, step 2: the cached record, refreshed when expired.
\* c.ret is token_info afterwards.
RefreshStep_always(c, s, okFrom) ==
    LET token_info == get_cached_token(c.tok, s)
    IN  IF IsRec(token_info)
        THEN LET r == refresh_access_token(c, s, okFrom)
             IN  IF r.raised
                 THEN [r EXCEPT !.tok = clear_token(r.tok, s), !.mut = Clear,
                                !.ret = None, !.raised = FALSE]
                 ELSE [r EXCEPT !.tok = save_token_to_cache(r.tok, s, r.ret),
                                !.mut = Put(r.ret)]
        ELSE [c EXCEPT !.ret = token_info]

RefreshStep(c, s, okFrom) ==
    LET token_info == get_cached_token(c.tok, s)
    IN  IF IsRec(token_info) /\ is_token_expired(token_info)
        THEN LET r == refresh_access_token(c, s, okFrom)
             IN  IF r.raised
                 THEN [r EXCEPT !.tok = clear_token(r.tok, s), !.mut = Clear,
                                !.ret = None, !.raised = FALSE]
                 ELSE [r EXCEPT !.tok = save_token_to_cache(r.tok, s, r.ret),
                                !.mut = Put(r.ret)]
        ELSE [c EXCEPT !.ret = token_info]

ClientOrLogin_profile_required(c, s, okFrom, po) ==
    IF IsRec(c.ret) /\ ~is_token_expired(c.ret)
    THEN LET c1 == [c EXCEPT !.obj = Obj(TRUE)]
             r == Observed(c1, s, sp_request(c1, s, okFrom))
         IN  IF r.raised \/ po = "fail"
             THEN [r EXCEPT !.obj = Obj(FALSE), !.raised = FALSE,
                            !.log.profile = "fail", !.log.login = TRUE,
                            !.flow = "stop"]
             ELSE [r EXCEPT !.usr = [name |-> "display_name", id |-> "id",
                                     image |-> IF po = "ok_img" THEN "url"
                                               ELSE "None"],
                            !.log.profile = "ok"]
    ELSE [c EXCEPT !.obj = Obj(FALSE), !.log.login = TRUE, !.flow = "stop"]

ClientOrLogin_nostop(c, s, okFrom, po) ==
    IF IsRec(c.ret) /\ ~is_token_expired(c.ret)
    THEN LET c1 == [c EXCEPT !.obj = Obj(TRUE)]
             r == Observed(c1, s, sp_request(c1, s, okFrom))
         IN  IF r.raised \/ po = "fail"
             THEN [r EXCEPT !.usr.name = "Usuario", !.usr.image = "None",
                            !.raised = FALSE, !.log.profile = "fail"]
             ELSE [r EXCEPT !.usr = [name |-> "display_name", id |-> "id",
                                     image |-> IF po = "ok_img" THEN "url"
                                               ELSE "None"],
                            !.log.profile = "ok"]
    ELSE [c EXCEPT !.obj = Obj(FALSE), !.log.login = TRUE]

\* _setup_spotify, step 3: the Spotify client and the user's profile, or the
\* login prompt and st.stop().  po is the provider's answer to current_user().
ClientOrLogin(c, s, okFrom, po) ==
    IF IsRec(c.ret) /\ ~is_token_expired(c.ret)
    THEN LET c1 == [c EXCEPT !.obj = Obj(TRUE)]
             r == Observed(c1, s, sp_request(c1, s, okFrom))
         IN  IF r.raised \/ po = "fail"
             THEN [r EXCEPT !.usr.name = "Usuario", !.usr.image = "None",
                            !.raised = FALSE, !.log.profile = "fail"]
             ELSE [r EXCEPT !.usr = [name |-> "display_name", id |-> "id",
                                     image |-> IF po = "ok_img" THEN "url"
                                               ELSE "None"],
                            !.log.profile = "ok"]
    ELSE [c EXCEPT !.obj = Obj(FALSE), !.log.login = TRUE, !.flow = "stop"]

setup_spotify(c, s, xo, okFrom, po) ==
    IF ~secrets.spotify
    THEN [c EXCEPT !.log.error = TRUE, !.flow = "stop"]
    ELSE Then([c EXCEPT !.tok = CacheInit(c.tok, s)], LAMBDA c1 :
         Then(IF c1.par # NoCode THEN ExchangeStep(c1, s, xo) ELSE c1, LAMBDA c2 :
              IF c2.flow # "go" THEN c2
              ELSE Then(RefreshStep(c2, s, okFrom), LAMBDA c3 :
                        ClientOrLogin(c3, s, okFrom, po))))

Construct_nocheck(c, s, xo, okFrom, po) == setup_spotify(c, s, xo, okFrom, po)

\* SpotifyGeminiAssistant.__init__
Construct(c, s, xo, okFrom, po) ==
    IF ~secrets.gemini
    THEN [c EXCEPT !.log.error = TRUE, !.flow = "stop"]
    ELSE setup_spotify(c, s, xo, okFrom, po)

logout_clear_chat(c, s) ==
    [c EXCEPT !.tok = clear_token(CacheInit(c.tok, s), s), !.mut = Clear,
              !.usr = NoUser, !.asst = NoObj, !.msgs = NoMessages,
              !.log.logout = TRUE, !.flow = "rerun"]

logout_keep_assistant(c, s) ==
    [c EXCEPT !.tok = clear_token(CacheInit(c.tok, s), s), !.mut = Clear,
              !.usr = NoUser, !.log.logout = TRUE, !.flow = "rerun"]

logout_keep_token(c, s) ==
    [c EXCEPT !.usr = NoUser, !.asst = NoObj,
              !.log.logout = TRUE, !.flow = "rerun"]

logout(c, s) ==
    [c EXCEPT !.tok = clear_token(CacheInit(c.tok, s), s), !.mut = Clear,
              !.usr = NoUser, !.asst = NoObj,
              !.log.logout = TRUE, !.flow = "rerun"]

\* The tagged result of an API Facade method: the success variant with the
\* reshaped data, or the error variant with the text of the exception.
Success == [status |-> "success", data |-> "data"]
Failure(e) == [status |-> "error", message |-> "Erro: " \o e]
NoResult == [status |-> "none"]

\* What goes wrong upstream of a request that was sent: a network failure, a
\* 4xx/5xx answer (both raised by the client), or a payload without the
\* fields the reshaping reads (raised by the reshaping).
Upstreams == {"ok", "network", "http", "malformed"}
ExceptionText(up) ==
    CASE up = "network" -> "ConnectionError"
      [] up = "http" -> "SpotifyException"
      [] up = "malformed" -> "KeyError"
      [] OTHER -> "SpotifyOauthError"

\* An API Facade method of the assistant (get_top_tracks, get_top_artists,
\* get_recently_played, get_currently_playing, get_playlists,
\* get_user_profile) without its exception handler: one request of self.sp
\* and the reshaping of the payload.
Facade_nocatch(c, s, okFrom) ==
    LET r == Observed(c, s, sp_request(c, s, okFrom))
    IN  IF r.raised THEN [r EXCEPT !.res = NoResult]
        ELSE IF c.up # "ok"
        THEN [r EXCEPT !.raised = TRUE, !.res = NoResult, !.log.fault = c.up]
        ELSE [r EXCEPT !.res = Success]

\* The method as the specification has it: every exception is turned into
\* the error variant.
Facade(c, s, okFrom) ==
    LET r == Observed(c, s, sp_request(c, s, okFrom))
    IN  IF r.raised
        THEN [r EXCEPT !.raised = FALSE, !.res = Failure(ExceptionText("ok"))]
        ELSE IF c.up # "ok"
        THEN [r EXCEPT !.res = Failure(ExceptionText(c.up)), !.log.fault = c.up]
        ELSE [r EXCEPT !.res = Success]

WellTagged(res) ==
    \/ res.status = "success"
    \/ res.status = "error" /\ res.message # ""

\* A facade call of a page.  show: the page has an st.error branch for the
\* error variant of this call.  An exception out of the call ends the run.
Call(c, s, okFrom, show) ==
    IF c.flow # "go" THEN c
    ELSE LET r == Facade(c, s, okFrom)
             failed == r.res.status = "error"
         IN  [r EXCEPT !.flow = IF r.raised THEN "exception" ELSE @,
                       !.log.escaped = @ \/ r.raised \/ ~WellTagged(r.res),
                       !.log.shown = @ \/ (failed /\ show),
                       !.log.silent = @ \/ (failed /\ ~show)]

RECURSIVE Calls(_, _, _, _, _)
Calls(c, s, okFrom, n, show) ==
    IF n = 0 THEN c
    ELSE Then(Call(c, s, okFrom, show), LAMBDA d : Calls(d, s, okFrom, n - 1, show))

Ok(c) == c.flow = "go" /\ c.res.status = "success"

\* display_dashboard: top tracks, top artists, currently playing, and the
\* two charts; the analysis button fetches three more results.  No branch
\* shows the error variant.
display_dashboard(c, s, okFrom, button) ==
    Then(Calls(c, s, okFrom, 5, FALSE), LAMBDA d :
         IF button THEN Calls(d, s, okFrom, 3, FALSE) ELSE d)

\* display_top_tracks, display_top_artists, display_recent_history,
\* display_playlists: one call, st.error on the error variant.
display_list(c, s, okFrom) == Call(c, s, okFrom, TRUE)

\* display_audio_features_analysis with its button pressed: top tracks,
\* then (on success) the audio features; st.error on either error variant.
display_audio_features_analysis(c, s, okFrom) ==
    Then(Call(c, s, okFrom, TRUE), LAMBDA d :
         IF Ok(d) THEN Call(d, s, okFrom, TRUE) ELSE d)

\* A fetch of collect_context_data, by name: the facade call, which fails
\* upstream when the name is among c.failing; c.trace lists the fetches made.
Fetch(c, s, okFrom, name) ==
    LET c1 == [c EXCEPT !.up = IF name \in c.failing THEN "network" ELSE @,
                        !.trace = Append(@, name)]
    IN  [Call(c1, s, okFrom, FALSE) EXCEPT !.up = c.up]

\* context_data[key] = value: c.ctx is the set of <<key, value>> items of the
\* dict; a value is named after the fetch it came from.
Assign(ctx, key, value) == {p \in ctx : p[1] # key} \cup {<<key, value>>}

\* collect_context_data: q is the set of keyword groups the question
\* matches.  func is a lambda, so func.__name__ is "<lambda>" for every
\* group.
Mappings == <<"tracks", "artists", "recent", "current", "playlists">>

RECURSIVE collect_keywords(_, _, _, _, _)
collect_keywords(c, s, okFrom, q, i) ==
    IF i > Len(Mappings) THEN c
    ELSE IF Mappings[i] \notin q THEN collect_keywords(c, s, okFrom, q, i + 1)
    ELSE Then(Fetch(c, s, okFrom, Mappings[i]), LAMBDA d :
              collect_keywords(IF Ok(d)
                               THEN [d EXCEPT !.ctx = Assign(@, "<lambda>", Mappings[i])]
                               ELSE d, s, okFrom, q, i + 1))

collect_context_data_partial(c, s, okFrom, q) ==
    Then(collect_keywords([c EXCEPT !.ctx = {}], s, okFrom, q, 1), LAMBDA d :
         IF d.ctx # {} \/ d.flow # "go" THEN d
         ELSE Then(Fetch(d, s, okFrom, "profile"), LAMBDA p :
              Then(IF Ok(p) THEN [p EXCEPT !.ctx = Assign(@, "profile", "profile")]
                   ELSE p, LAMBDA p1 :
              Then(Fetch(p1, s, okFrom, "top5_tracks"), LAMBDA tr :
              Then(Fetch(tr, s, okFrom, "top5_artists"), LAMBDA ar :
                   IF Ok(tr) \/ Ok(ar)
                   THEN [ar EXCEPT !.ctx = Assign(@, "general_stats", "top5")]
                   ELSE ar)))))

collect_context_data(c, s, okFrom, q) ==
    Then(collect_keywords([c EXCEPT !.ctx = {}], s, okFrom, q, 1), LAMBDA d :
         IF d.ctx # {} \/ d.flow # "go" THEN d
         ELSE Then(Fetch(d, s, okFrom, "profile"), LAMBDA p :
              Then(IF Ok(p) THEN [p EXCEPT !.ctx = Assign(@, "profile", "profile")]
                   ELSE p, LAMBDA p1 :
              Then(Fetch(p1, s, okFrom, "top5_tracks"), LAMBDA tr :
              Then(Fetch(tr, s, okFrom, "top5_artists"), LAMBDA ar :
                   IF Ok(tr) /\ Ok(ar)
                   THEN [ar EXCEPT !.ctx = Assign(@, "general_stats", "top5")]
                   ELSE ar)))))

\* st.session_state.messages.append({"role": role, ...})
AppendMessage(c, role) == [c EXCEPT !.msgs = Append(@, role)]

\* assistant.analyze_with_gemini(question, context_data): the answer's text,
\* or the error string; it raises nothing and writes nothing.
analyze_with_gemini(c) == c

process_question_forgetful(c, s, okFrom, q) ==
    Then(collect_context_data(AppendMessage(c, "user"), s, okFrom, q), LAMBDA d :
         IF d.flow # "go" THEN d
         ELSE [AppendMessage(analyze_with_gemini(d), "assistant")
                  EXCEPT !.asked = @ + 1,
                         !.tok = clear_token(d.tok, s), !.mut = Clear])

process_question_noreply(c, s, okFrom, q) ==
    Then(collect_context_data(AppendMessage(c, "user"), s, okFrom, q), LAMBDA d :
         IF d.flow # "go" THEN d
         ELSE [analyze_with_gemini(d) EXCEPT !.asked = @ + 1])

\* process_question: the question is appended, the context collected and
\* handed to the model, the answer shown and appended.
process_question(c, s, okFrom, q) ==
    Then(collect_context_data(AppendMessage(c, "user"), s, okFrom, q), LAMBDA d :
         IF d.flow # "go" THEN d
         ELSE [AppendMessage(analyze_with_gemini(d), "assistant")
                  EXCEPT !.asked = @ + 1])

\* display_chat_ai: the transcript is created (empty) when missing and
\* shown; a question put (a suggestion's button or the chat input) is
\* processed.
display_chat_ai(c, s, okFrom, q, asking) ==
    IF asking THEN process_question(c, s, okFrom, q) ELSE c

\* option_menu of main(), and the buttons of the pages.
Menus == {"Dashboard", "Top Musicas", "Top Artistas", "Historico", "Playlists",
          "Analise Profunda", "Chat AI"}
Buttons == {"Dashboard+Gerar Analise", "Analise Profunda+Audio Features",
            "Chat AI+pergunta"}
Questions == {{}, {"tracks"}, {"artists", "recent"}}

\* The page of main()'s dispatch.  click is the selected menu entry, or the
\* entry with the button of its page that is pressed; q is the question put
\* to the chat.
Page(c, s, okFrom, click, q) ==
    CASE click = "Dashboard" -> display_dashboard(c, s, okFrom, FALSE)
      [] click = "Dashboard+Gerar Analise" -> display_dashboard(c, s, okFrom, TRUE)
      [] click \in {"Top Musicas", "Top Artistas", "Historico", "Playlists"} ->
             display_list(c, s, okFrom)
      [] click = "Analise Profunda+Audio Features" ->
             display_audio_features_analysis(c, s, okFrom)
      [] click = "Chat AI" -> display_chat_ai(c, s, okFrom, q, FALSE)
      [] click = "Chat AI+pergunta" -> display_chat_ai(c, s, okFrom, q, TRUE)
      [] OTHER -> c

\* main(): one script run.  click is the logout button, or else the menu entry
\* that is selected (and the page's button that is pressed).
main(c, s, click, xo, okFrom, po) ==
    Then(IF c.asst = NoObj THEN Construct(c, s, xo, okFrom, po) ELSE c, LAMBDA c1 :
    Then(IF c.asst = NoObj /\ c1.flow = "go"
         THEN [c1 EXCEPT !.asst = c1.obj] ELSE c1, LAMBDA c2 :
         IF c2.flow # "go" THEN c2
         ELSE IF ~c2.asst.is_authenticated THEN [c2 EXCEPT !.flow = "return"]
         ELSE Then([Call(c2, s, okFrom, FALSE) EXCEPT !.flow = "go"], LAMBDA c3 :
                   IF click = "logout" THEN logout(c3, s)
                   ELSE Page([c3 EXCEPT !.log.button =
                                          IF click \in Buttons THEN click
                                          ELSE "none"],
                             s, okFrom, click, c3.q))))

\* ================= SpotifyClient (src/spotify_client.py) ===================
\* The minimal client builds SpotifyOAuth(cache_path=".spotify_cache"): the
\* auth manager's cache is a file in the working directory of the server
\* process, the same file for every session.  A record of the file carries
\* the session whose user granted it.
FileRec(e, s) == [kind |-> "rec", exp |-> e, owner |-> s]
NoClient == [kind |-> "nokey", used |-> None, spotify_user |-> "NoKey"]
NoInput == [op |-> "none"]
NoOutput == [kind |-> "none"]

\* self.client.current_user() of _setup_client: the auth manager takes the
\* record of the file, refreshes it when is_token_expired (ro: the provider's
\* answer), and only when the file holds none runs the interactive
\* authorization (go: the session's user consents, or it fails).  The record
\* obtained is written to the file.  The result is the file and the record
\* the request was sent with (None: an exception, re-raised at line 56).
setup_client(file, s, go, ro) ==
    IF IsRec(file)
    THEN IF is_token_expired(file)
         THEN IF ro = "ok"
              THEN LET fresh == FileRec(now + TokenLife, file.owner)
                   IN  [file |-> fresh, used |-> fresh]
              ELSE [file |-> file, used |-> None]
         ELSE [file |-> file, used |-> file]
    ELSE IF go = "ok"
         THEN LET fresh == FileRec(now + TokenLife, s)
              IN  [file |-> fresh, used |-> fresh]
         ELSE [file |-> file, used |-> None]

\* ============================== the system ================================
NewLog ==
    [at |-> now, exchange |-> "none", fails |-> 0, oks |-> 0, rleft |-> 0,
     newrec |-> None, calls |-> 0, sent |-> FALSE, stale |-> FALSE,
     login |-> FALSE, error |-> FALSE, logout |-> FALSE, end |-> "idle",
     obj |-> NoObj, button |-> "none", fault |-> "ok", escaped |-> FALSE,
     shown |-> FALSE, silent |-> FALSE, profile |-> "none"]

InitApp ==
    /\ now = 0
    /\ secrets \in [gemini : BOOLEAN, spotify : BOOLEAN]
    /\ token = [s \in Sessions |-> NoKey]
    /\ assistant = [s \in Sessions |-> NoObj]
    /\ user = [s \in Sessions |-> NoUser]
    /\ params = [s \in Sessions |-> NoCode]
    /\ pending = [s \in Sessions |-> FALSE]
    /\ issued = 0
    /\ run = [s \in Sessions |-> [NewLog EXCEPT !.at = 0]]
    /\ loggedOut = [s \in Sessions |-> FALSE]
    /\ lastMut = [s \in Sessions |-> NoMut]
    /\ actor = "clock"
    /\ cache_file = None
    /\ client = [s \in Sessions |-> NoClient]
    /\ out = NoOutput
    /\ messages = [s \in Sessions |-> NoMessages]
    /\ asked = [s \in Sessions |-> 0]

Init == InitApp /\ inp = NoInput

\* What is kept of a run's log: all of it ("full"); all but the times and
\* records of its refreshes and the profile fetch ("page"); or only whether the run ended at the
\* login prompt ("login").
Kept(log, detail) ==
    CASE detail = "login" -> [NewLog EXCEPT !.at = 0, !.login = log.login]
      [] detail = "page" -> [log EXCEPT !.at = 0, !.rleft = 0, !.newrec = None,
                                        !.profile = "none"]
      [] OTHER -> log

\* The context of a script run of session s that starts now.
Context(s, q, up) ==
    [tok |-> token, par |-> params[s], usr |-> user[s],
     asst |-> assistant[s], obj |-> NoObj, log |-> NewLog,
     mut |-> lastMut[s], flow |-> "go", raised |-> FALSE,
     ret |-> None, res |-> NoResult, up |-> up, q |-> q, ctx |-> {},
     failing |-> {}, trace |-> <<>>, msgs |-> messages[s],
     asked |-> asked[s]]

ScriptRun(s, click, q, up, xo, okFrom, po, detail) ==
    LET c0 == Context(s, q, up)
    IN  \E r \in {main(c0, s, click, xo, okFrom, po)} :
        /\ messages' = [messages EXCEPT ![s] = r.msgs]
        /\ asked' = [asked EXCEPT ![s] = r.asked]
        /\ token' = r.tok
        /\ params' = [params EXCEPT ![s] = r.par]
        /\ user' = [user EXCEPT ![s] = r.usr]
        /\ assistant' = [assistant EXCEPT ![s] = r.asst]
        /\ pending' = [pending EXCEPT ![s] = (r.flow = "rerun")]
        /\ run' = [run EXCEPT ![s] =
                     Kept([r.log EXCEPT !.obj = r.obj,
                                        !.end = IF r.flow = "go" THEN "done"
                                                ELSE r.flow], detail)]
        /\ loggedOut' = [loggedOut EXCEPT ![s] =
                           IF r.log.logout THEN TRUE
                           ELSE IF r.log.exchange = "ok" THEN FALSE ELSE @]
        /\ lastMut' = [lastMut EXCEPT ![s] = r.mut]
        /\ actor' = s
        /\ UNCHANGED <<now, secrets, issued, aux>>

\* The provider's answers a run can come to need: an exchange only with a
\* code in the URL, a refresh only with a record cached when the run starts,
\* the profile only when the assistant is constructed, an upstream fault
\* only with a record to send requests with.
Outcomes(s) == IF params[s] = NoCode THEN {"none"} ELSE {"ok", "empty", "raise"}
Refreshes(s) == IF IsRec(token[s]) THEN 1..(MaxAttempts + 1) ELSE {1}
Profiles(s) == IF assistant[s] = NoObj THEN {"fail", "ok_img", "ok_noimg"}
               ELSE {"fail"}
Faults(s) == IF IsRec(token[s]) THEN Upstreams ELSE {"ok"}
Asked(click) == IF click = "Chat AI+pergunta" THEN Questions ELSE {{}}

\* The user acts on a widget (or loads the page): the script runs.
Interact(s, detail) ==
    /\ ~pending[s]
    /\ \E click \in Menus \cup {"logout"}, xo \in Outcomes(s),
          okFrom \in Refreshes(s), po \in Profiles(s) :
          ScriptRun(s, click, {}, "ok", xo, okFrom, po, detail)

\* The run st.rerun() asked for: no button is pressed in it.
Rerun(s, detail) ==
    /\ pending[s]
    /\ \E menu \in Menus, xo \in Outcomes(s),
          okFrom \in Refreshes(s), po \in Profiles(s) :
          ScriptRun(s, menu, {}, "ok", xo, okFrom, po, detail)

\* The user follows the login link, consents, and the provider redirects the
\* browser back with ?code=...: the page load starts the session afresh.
Redirect(s) ==
    /\ ~pending[s]
    /\ run[s].login
    /\ issued < MaxCodes
    /\ issued' = issued + 1
    /\ params' = [params EXCEPT ![s] = issued + 1]
    /\ token' = [token EXCEPT ![s] = NoKey]
    /\ assistant' = [assistant EXCEPT ![s] = NoObj]
    /\ user' = [user EXCEPT ![s] = NoUser]
    /\ run' = [run EXCEPT ![s] = [NewLog EXCEPT !.at = 0]]
    /\ lastMut' = [lastMut EXCEPT ![s] = NoMut]
    /\ messages' = [messages EXCEPT ![s] = NoMessages]
    /\ asked' = [asked EXCEPT ![s] = 0]
    /\ actor' = s
    /\ UNCHANGED <<now, secrets, pending, loggedOut, aux>>

Tick ==
    /\ now < MaxTime
    /\ \A s \in Sessions : ~pending[s]
    /\ now' = now + 1
    /\ actor' = "clock"
    /\ UNCHANGED <<secrets, token, assistant, user, params, pending, issued,
                   run, loggedOut, lastMut, aux, chat>>

\* The steps in which the sessions of S take part.
NextOf(S, detail) ==
    \/ \E s \in S : Interact(s, detail)
    \/ \E s \in S : Rerun(s, detail)
    \/ \E s \in S : Redirect(s)
    \/ Tick

\* One session's script runs, in any order with the clock.
Next == NextOf({"s1"}, "full")
Spec == Init /\ [][Next]_vars

\* Streamlit runs the script again when st.rerun() asks for it.
FairSpec == Spec /\ WF_vars(Rerun("s1", "full"))

\* Two sessions, their script runs interleaved in any order.
NextTwo == NextOf(Sessions, "login")
SpecTwo == Init /\ [][NextTwo]_vars

\* ==================== the pages and their buttons ==========================
\* One session's script runs with the buttons of the pages and the chat's
\* questions among the user's actions and with faults upstream of the
\* requests; the provider accepts every refresh.
InteractPage(s) ==
    /\ ~pending[s]
    /\ \E click \in Menus \cup Buttons \cup {"logout"}, xo \in Outcomes(s),
          po \in Profiles(s), up \in Faults(s) :
          \E q \in Asked(click) :
             /\ click = "Chat AI+pergunta" => asked[s] < MaxQuestions
             /\ ScriptRun(s, click, q, up, xo, 1, po, "page")

RerunPage(s) ==
    /\ pending[s]
    /\ \E menu \in Menus, xo \in Outcomes(s), po \in Profiles(s),
          up \in Faults(s) :
          ScriptRun(s, menu, {}, up, xo, 1, po, "page")

NextPages ==
    \/ InteractPage("s1")
    \/ RerunPage("s1")
    \/ Redirect("s1")
    \/ Tick

SpecPages == Init /\ [][NextPages]_vars

\* ================ the Credential Cache driven on its own ==================
\* Handlers are constructed and put, clear are called in any order, in both
\* sessions.  A method needs a handler, whose construction leaves the slot in
\* the session.
MaxRecords == 6
Records == {Rec(e) : e \in 1..MaxRecords}

CacheNew(s) ==
    /\ token' = CacheInit(token, s)
    /\ actor' = s
    /\ UNCHANGED <<now, secrets, assistant, user, params, pending, issued, run,
                   loggedOut, lastMut, aux, chat>>

CachePut(s) ==
    /\ token[s] # NoKey
    /\ \E r \in Records :
          /\ token' = save_token_to_cache(token, s, r)
          /\ lastMut' = [lastMut EXCEPT ![s] = Put(r)]
    /\ actor' = s
    /\ UNCHANGED <<now, secrets, assistant, user, params, pending, issued, run,
                   loggedOut, aux, chat>>

CacheClear(s) ==
    /\ token[s] # NoKey
    /\ token' = clear_token(token, s)
    /\ lastMut' = [lastMut EXCEPT ![s] = Clear]
    /\ actor' = s
    /\ UNCHANGED <<now, secrets, assistant, user, params, pending, issued, run,
                   loggedOut, aux, chat>>

NextCache ==
    \/ \E s \in Sessions : CacheNew(s)
    \/ \E s \in Sessions : CachePut(s)
    \/ \E s \in Sessions : CacheClear(s)

SpecCache == Init /\ [][NextCache]_vars

\* ============== sessions that build the minimal SpotifyClient ==============
\* SpotifyClient() in a script run of session s.  On an exception nothing is
\* assigned; otherwise st.session_state.spotify_user is the display name of
\* the user the record belongs to.
SetupClient(s) ==
    /\ \E go \in {"ok", "raise"}, ro \in {"ok", "raise"} :
          LET r == setup_client(cache_file, s, go, ro)
          IN  /\ cache_file' = r.file
              /\ client' = [client EXCEPT ![s] =
                              IF r.used = None THEN @
                              ELSE [kind |-> "obj", used |-> r.used,
                                    spotify_user |-> r.used.owner]]
    /\ actor' = s
    /\ UNCHANGED <<now, secrets, token, assistant, user, params, pending,
                   issued, run, loggedOut, lastMut, inp, out, chat>>

NextClient ==
    \/ \E s \in Sessions : SetupClient(s)
    \/ Tick

SpecClient == Init /\ [][NextClient]_vars

\* ===================== functions applied on their own ======================
\* inp holds the arguments (drawn when the behaviour starts), out the result
\* once the function has been applied.
Applied(result) ==
    /\ out = NoOutput
    /\ out' = result
    /\ UNCHANGED <<now, secrets, token, assistant, user, params, pending,
                   issued, run, loggedOut, lastMut, actor, cache_file, client,
                   inp, chat>>

\* ---- the limits the pages pass to the API Facade
\* The provider's cap on limit (top tracks, top artists, recently played,
\* playlists).
ProviderCap == 50

\* st.slider(label, lo, hi, default) of a page and the facade method its
\* value is passed to as limit; a fixed limit is a slider with lo = hi.
LimitSites ==
    {[site |-> "display_top_tracks", method |-> "get_top_tracks",
      lo |-> 5, hi |-> 50],
     [site |-> "display_top_artists", method |-> "get_top_artists",
      lo |-> 5, hi |-> 50],
     [site |-> "display_recent_history", method |-> "get_recently_played",
      lo |-> 10, hi |-> 100],
     [site |-> "display_audio_features_analysis", method |-> "get_top_tracks",
      lo |-> 10, hi |-> 100],
     [site |-> "display_playlists", method |-> "get_playlists",
      lo |-> 50, hi |-> 50],
     [site |-> "display_dashboard", method |-> "get_top_tracks",
      lo |-> 5, hi |-> 5],
     [site |-> "display_dashboard charts", method |-> "get_top_artists",
      lo |-> 10, hi |-> 10],
     [site |-> "collect_context_data", method |-> "get_recently_played",
      lo |-> 20, hi |-> 20]}

LimitInputs ==
    UNION {[op : {"limit"}, site : {w.site}, method : {w.method},
            value : w.lo..w.hi] : w \in LimitSites}

\* The page reads its slider and calls the facade method.
PassLimit ==
    /\ inp.op = "limit"
    /\ Applied([kind |-> "call", method |-> inp.method, limit |-> inp.value])

\* ---- safe_serialize
\* Python values: JSON-native leaves (int, str, None), a datetime, a
\* SpotifyTrack, an object json.dumps rejects, and list, tuple, set, dict of
\* values.  A dict is the sequence of its <<key, value>> pairs.
MaxLen == 2           \* items of a list, and of a dict
PyInt(n) == [k |-> "int", n |-> n]
PyStr(v) == [k |-> "str", v |-> v]
PyText(chars) == [k |-> "str", chars |-> chars]    \* a str, character by character
PyNone == [k |-> "none"]
Datetime(d, h) == [k |-> "datetime", date |-> d, time |-> h]
Track(n, a, ms) == [k |-> "track", name |-> n, artist |-> a, duration_ms |-> ms]
Object(r) == [k |-> "object", repr |-> r]
List(items) == [k |-> "list", items |-> items]
Tuple(items) == [k |-> "tuple", items |-> items]
PySet(members) == [k |-> "set", members |-> members]
Dict(pairs) == [k |-> "dict", pairs |-> pairs]
Exception(e) == [k |-> "exception", type |-> e]

\* datetime.isoformat() and str(datetime): "2024-05-01T21:30:00" and
\* "2024-05-01 21:30:00".
isoformat(obj) == PyStr(obj.date \o "T" \o obj.time)
str(obj) ==
    CASE obj.k = "datetime" -> PyStr(obj.date \o " " \o obj.time)
      [] obj.k = "object" -> PyStr(obj.repr)
      [] OTHER -> obj

\* Decimal digits of a natural number, as a sequence of characters.
Digit(d) == SubSeq(<<"0", "1", "2", "3", "4", "5", "6", "7", "8", "9">>, d + 1, d + 1)
RECURSIVE Decimal(_)
Decimal(n) == IF n < 10 THEN Digit(n) ELSE Decimal(n \div 10) \o Digit(n % 10)

\* SpotifyTrack.duration_minutes: f"{minutes}:{seconds:02d}"
duration_minutes_unpadded(duration_ms) ==
    LET minutes == duration_ms \div 60000
        seconds == (duration_ms % 60000) \div 1000
    IN  Decimal(minutes) \o <<":">> \o Decimal(seconds)

duration_minutes(duration_ms) ==
    LET minutes == duration_ms \div 60000
        seconds == (duration_ms % 60000) \div 1000
    IN  Decimal(minutes) \o <<":">> \o
        (IF seconds < 10 THEN <<"0">> ELSE <<>>) \o Decimal(seconds)

to_dict_with_datetime(obj) ==
    Dict(<<<<"name", PyStr(obj.name)>>, <<"artist", PyStr(obj.artist)>>,
           <<"duration", PyText(duration_minutes(obj.duration_ms))>>,
           <<"duration_ms", PyInt(obj.duration_ms)>>,
           <<"played_at", Datetime("2024-05-01", "21:30:00")>> >>)

\* SpotifyTrack.to_dict, the fields the pages read.
to_dict(obj) ==
    Dict(<<<<"name", PyStr(obj.name)>>, <<"artist", PyStr(obj.artist)>>,
           <<"duration", PyText(duration_minutes(obj.duration_ms))>>,
           <<"duration_ms", PyInt(obj.duration_ms)>> >>)

\* json.dumps(obj) of a leaf raises TypeError for what is not JSON-native.
json_dumps_raises(obj) == obj.k \notin {"int", "str", "none"}

\* An order in which a set is iterated.
Listed(S) == CHOOSE q \in [1..Cardinality(S) -> S] : \A x \in S : \E i \in DOMAIN q : q[i] = x

\* An exception raised for an item is raised by the whole.
Raises(items) == \E i \in DOMAIN items : items[i].k = "exception"
FirstRaised(items) ==
    items[CHOOSE i \in DOMAIN items :
             /\ items[i].k = "exception"
             /\ \A j \in 1..(i - 1) : items[j].k # "exception"]

RECURSIVE safe_serialize_nofallback(_)
safe_serialize_nofallback(obj) ==
    CASE obj.k = "track" -> to_dict(obj)
      [] obj.k = "datetime" -> isoformat(obj)
      [] obj.k \in {"list", "tuple", "set"} ->
            LET src == IF obj.k = "set" THEN Listed(obj.members) ELSE obj.items
                res == [i \in DOMAIN src |-> safe_serialize_nofallback(src[i])]
            IN  IF Raises(res) THEN FirstRaised(res) ELSE List(res)
      [] obj.k = "dict" ->
            LET res == [i \in DOMAIN obj.pairs |->
                           safe_serialize_nofallback(obj.pairs[i][2])]
            IN  IF Raises(res) THEN FirstRaised(res)
                ELSE Dict([i \in DOMAIN obj.pairs |-> <<obj.pairs[i][1], res[i]>>])
      [] OTHER -> IF json_dumps_raises(obj) THEN Exception("TypeError") ELSE obj

RECURSIVE safe_serialize(_)
safe_serialize(obj) ==
    CASE obj.k = "track" -> to_dict(obj)
      [] obj.k = "datetime" -> isoformat(obj)
      [] obj.k \in {"list", "tuple", "set"} ->
            LET src == IF obj.k = "set" THEN Listed(obj.members) ELSE obj.items
                res == [i \in DOMAIN src |-> safe_serialize(src[i])]
            IN  IF Raises(res) THEN FirstRaised(res) ELSE List(res)
      [] obj.k = "dict" ->
            LET res == [i \in DOMAIN obj.pairs |-> safe_serialize(obj.pairs[i][2])]
            IN  IF Raises(res) THEN FirstRaised(res)
                ELSE Dict([i \in DOMAIN obj.pairs |-> <<obj.pairs[i][1], res[i]>>])
      [] OTHER -> IF json_dumps_raises(obj) THEN str(obj) ELSE obj

\* The values safe_serialize is applied to: leaves, containers of leaves,
\* and containers of those.
Leaves ==
    {PyInt(7), PyStr("rock"), PyNone, Datetime("2024-05-01", "21:30:00"),
     Track("Song", "Band", 215000), Object("Decimal('0.5')")}
Hashable == {x \in Leaves : x.k \in {"int", "str", "none", "datetime"}}
SeqsOf(S, n) == UNION {[1..m -> S] : m \in 0..n}
Keys == <<"top_tracks", "played_at", "profile", "total">>
Flat ==
    Leaves
    \cup {List(q) : q \in SeqsOf(Leaves, MaxLen)}
    \cup {Tuple(q) : q \in SeqsOf(Leaves, 1)}
    \cup {PySet(S) : S \in {T \in SUBSET Hashable : Cardinality(T) \in 1..2}}
    \cup {Dict([i \in DOMAIN q |-> <<Keys[i], q[i]>>]) : q \in SeqsOf(Leaves, MaxLen)}
Values ==
    Flat \cup {Dict(<<<<"data", x>>>>) : x \in Flat} \cup {List(<<x>>) : x \in Flat}

SerializeInputs == {[op |-> "serialize", obj |-> x] : x \in Values}

Serialize ==
    /\ inp.op = "serialize"
    /\ Applied([kind |-> "value", value |-> safe_serialize(inp.obj)])

\* ---- GeminiClient.analyze_data (src/gemini_client.py)
\* gen is what the model call does: it returns a response whose text is
\* read, or an exception is raised by generate_content (quota, network) or
\* by response.text (a blocked response).
ErrorPrefix == "Desculpe, ocorreu um erro: "
Return(v) == [kind |-> "return", value |-> v]
Raise(e) == [kind |-> "exception", value |-> e]

analyze_data_nocatch(query, context, gen) ==
    IF gen.kind = "raise" THEN Raise(gen.exc) ELSE Return(gen.text)

analyze_data(query, context, gen) ==
    IF gen.kind = "raise" THEN Return(ErrorPrefix \o gen.exc) ELSE Return(gen.text)

Generations ==
    {[kind |-> "text", text |-> x] :
        x \in {"", "Voce ouve muito rock.", "  linha 1\n\nlinha 2  "}}
    \cup {[kind |-> "raise", exc |-> e] :
            e \in {"429 Resource has been exhausted", "ConnectionError",
                   "response.text: the response was blocked", ""}}

AnalyzeInputs ==
    {[op |-> "analyze", query |-> qu, context |-> x, gen |-> g] :
        qu \in {"", "Quais sao minhas musicas mais ouvidas?"},
        x \in {Dict(<<>>), Dict(<<<<"top_tracks", List(<<>>)>>>>)},
        g \in Generations}

Analyze ==
    /\ inp.op = "analyze"
    /\ Applied(analyze_data(inp.query, inp.context, inp.gen))

\* ---- get_top_tracks of the API Facade on a provider's answer
MaxItems == 5         \* items of a provider's answer, and the limit asked for
Items ==
    {[name |-> "Song", artist |-> "Band", duration_ms |-> 185000],
     [name |-> "Intro", artist |-> "Band", duration_ms |-> 59999],
     [name |-> "Epic", artist |-> "Other", duration_ms |-> 600000],
     [name |-> "Blip", artist |-> "Solo", duration_ms |-> 999]}

\* Every item of the answer becomes a SpotifyTrack and is given as its
\* to_dict(), in the provider's order.
get_top_tracks(limit, items) ==
    [status |-> "success",
     data |-> [i \in DOMAIN items |->
                  to_dict(Track(items[i].name, items[i].artist,
                                items[i].duration_ms))]]

TopTracksInputs ==
    {[op |-> "top_tracks", limit |-> l, items |-> q] :
        l \in 1..MaxItems, q \in SeqsOf(Items, MaxItems)}

TopTracks ==
    /\ inp.op = "top_tracks"
    /\ Len(inp.items) <= inp.limit
    /\ Applied(get_top_tracks(inp.limit, inp.items))

\* ---- SpotifyTrack.duration_minutes of the minimal client
\* (src/spotify_client.py): f"{minutes}:{seconds:02d}"
duration_minutes_rounded(duration_ms) ==
    LET minutes == duration_ms \div 60000
        seconds == ((duration_ms % 60000) + 500) \div 1000
    IN  Decimal(minutes) \o <<":">> \o
        (IF seconds < 10 THEN <<"0">> ELSE <<>>) \o Decimal(seconds)

SpotifyClient_duration_minutes(duration_ms) ==
    LET minutes == duration_ms \div 60000
        seconds == (duration_ms % 60000) \div 1000
    IN  Decimal(minutes) \o <<":">> \o
        (IF seconds < 10 THEN <<"0">> ELSE <<>>) \o Decimal(seconds)

\* duration_ms: every whole second up to MaxSeconds, at its first and its
\* last millisecond.
MaxSeconds == 660
DurationInputs ==
    {[op |-> "duration", ms |-> 1000 * sec + r] :
        sec \in 0..MaxSeconds, r \in {0, 999}}

Duration ==
    /\ inp.op = "duration"
    /\ Applied([kind |-> "duration",
                main |-> duration_minutes(inp.ms),
                client |-> SpotifyClient_duration_minutes(inp.ms),
                dict |-> to_dict(Track("Song", "Band", inp.ms))])

\* ---- collect_context_data on a question, by the keyword groups it matches
\* and the fetches that fail; the session holds a record that is not expired.
Groups == {Mappings[i] : i \in DOMAIN Mappings}
Fallbacks == {"profile", "top5_tracks", "top5_artists"}

CollectInputs ==
    {i \in [op : {"collect"}, q : SUBSET Groups,
            failing : SUBSET (Groups \cup Fallbacks)] :
        i.failing \subseteq i.q \cup Fallbacks}

CollectContext ==
    /\ inp.op = "collect"
    /\ LET c == [Context("s1", inp.q, "ok") EXCEPT
                    !.tok = save_token_to_cache(CacheInit(@, "s1"), "s1",
                                                Rec(now + TokenLife)),
                    !.asst = Obj(TRUE), !.failing = inp.failing]
           r == collect_context_data(c, "s1", 1, inp.q)
       IN  Applied([kind |-> "context", ctx |-> r.ctx, trace |-> r.trace])

\* ---- the functions, each applied to every argument
InitFn ==
    /\ InitApp
    /\ secrets = [gemini |-> TRUE, spotify |-> TRUE]
    /\ inp \in LimitInputs \cup SerializeInputs \cup AnalyzeInputs
               \cup {i \in TopTracksInputs : Len(i.items) <= i.limit}
               \cup CollectInputs \cup DurationInputs

NextFn ==
    \/ PassLimit
    \/ Serialize
    \/ Analyze
    \/ TopTracks
    \/ CollectContext
    \/ Duration

SpecFn == InitFn /\ [][NextFn]_vars

\* ================================ claims ==================================
Authenticated(s) == assistant[s] # NoObj /\ assistant[s].is_authenticated
Attempts(s) == run[s].fails + run[s].oks

\* C1: no Spotify API call of any script run is made with a cached record
\* whose expires_at is in the past unless a refresh of that record was
\* attempted first.
C1_NoStaleCall == \A s \in Sessions : ~run[s].stale

\* A record with expires_at in the past was cached, a refresh of it was
\* attempted and the call went out.
C1_Witness ==
    \E s \in Sessions :
        Attempts(s) > 0 /\ run[s].rleft < 0 /\ run[s].calls > 0 /\ run[s].sent

\* C2 (as claimed): for a cached record with expires_at in the past exactly
\* one refresh attempt is made before the next API Facade call proceeds,
\* never zero and never a second one.
C2_ExactlyOneRefresh ==
    \A s \in Sessions :
        /\ ~run[s].stale
        /\ (Attempts(s) > 0 /\ run[s].rleft < 0) => Attempts(s) = 1

\* C3 (as claimed): no refresh is called for a cached record whose
\* expires_at is in the future, by any amount.
C3_NoRefreshOfFutureRecord ==
    \A s \in Sessions : Attempts(s) > 0 => run[s].rleft <= 0

\* C3 (amended): no refresh is called for a cached record whose expires_at
\* is at least the auth manager's margin in the future.
C3_NoRefreshOutsideMargin ==
    \A s \in Sessions : Attempts(s) > 0 => run[s].rleft < Margin

\* A run found a record cached with exactly the margin left, sent requests
\* with it and refreshed nothing.
C3_Witness ==
    \E s \in Sessions :
        /\ run[s].at = now /\ run[s].exchange = "none"
        /\ IsRec(token[s]) /\ token[s].exp - now = Margin
        /\ run[s].sent /\ Attempts(s) = 0

\* C4 (as claimed): after a failed refresh attempt (in a run without logout)
\* the cache is cleared, the session is UNAUTHENTICATED, the login prompt is
\* shown and the run made no API Facade call.
C4_FailedRefreshLogsOut ==
    \A s \in Sessions :
        (run[s].fails > 0 /\ ~run[s].logout) =>
            /\ Get(token, s) = None
            /\ ~Authenticated(s)
            /\ run[s].login
            /\ run[s].calls = 0

\* C5: after a successful refresh (in a run without logout) the cache holds
\* exactly the record the refresh returned, which is not the expired record,
\* and the session is AUTHENTICATED.
C5_RefreshReplacesRecord ==
    \A s \in Sessions :
        (run[s].oks > 0 /\ ~run[s].logout) =>
            /\ Get(token, s) = run[s].newrec
            /\ IsRec(run[s].newrec)
            /\ run[s].newrec # Rec(run[s].at + run[s].rleft)
            /\ Authenticated(s)

\* A refresh of a record with expires_at in the past succeeded.
C5_Witness ==
    \E s \in Sessions : run[s].oks > 0 /\ ~run[s].logout /\ run[s].rleft < 0

\* C6: a successful code exchange stores the returned record in the session's
\* cache and asks for a rerun, and the session then reaches AUTHENTICATED.
ExchangedOk(s) == run[s].exchange = "ok" /\ run[s].end = "rerun"
C6_ExchangeLeadsToAuthenticated ==
    /\ [](ExchangedOk("s1") =>
            /\ Get(token, "s1") = Rec(run["s1"].at + TokenLife)
            /\ pending["s1"] /\ params["s1"] = NoCode)
    /\ (ExchangedOk("s1") ~> Authenticated("s1"))

\* A code exchange has just succeeded.
C6_Witness == ExchangedOk("s1") /\ ~Authenticated("s1")

\* C7: after a failed code exchange (exception, or empty token) no record is
\* cached, the session is not AUTHENTICATED, an error and the login prompt
\* were shown and the run ended at the prompt's st.stop().
C7_FailedExchange ==
    \A s \in Sessions :
        run[s].exchange \in {"raise", "empty"} =>
            /\ Get(token, s) = None
            /\ ~Authenticated(s)
            /\ run[s].error /\ run[s].login
            /\ run[s].end = "stop" /\ run[s].calls = 0

\* A code exchange has just raised.
C7_Witness == \E s \in Sessions : run[s].exchange = "raise"

\* C8: from logout on, until a code exchange succeeds, get() returns absent.
C8_LogoutClearsCache ==
    \A s \in Sessions : loggedOut[s] => Get(token, s) = None

\* The session was logged out of by the latest run, which had a record cached.
C8_Witness ==
    \E s \in Sessions : loggedOut[s] /\ run[s].logout /\ run[s].sent

\* C9: get() returns the record of the latest put if no clear followed it,
\* and absent when there was no put or the clear came last.
C9_GetReturnsLatestPut ==
    \A s \in Sessions : token[s] # NoKey => Get(token, s) = Expected(lastMut[s])

\* One session cleared after a put was possible, the other holds a record.
C9_Witness ==
    \E s, t \in Sessions :
        /\ lastMut[s].kind = "clear" /\ lastMut[t].kind = "put"
        /\ Get(token, t) = lastMut[t].rec

\* C10: no step of one session (put, clear, login, refresh, logout) changes
\* what get() returns in the other session.
C10_SessionsIsolated ==
    [][\A s \in Sessions : actor' # s => Get(token', s) = Get(token, s)]_vars

\* Both sessions hold a record, and not the same one.
C10_Witness ==
    /\ IsRec(token["s1"]) /\ IsRec(token["s2"])
    /\ token["s1"] # token["s2"]

\* C11 (as claimed): the credential the minimal SpotifyClient of a session
\* uses for its API calls was obtained by that session; a record obtained by
\* one session is never used by another.
C11_ClientTokenPerSession ==
    \A s \in Sessions :
        client[s].kind = "obj" =>
            /\ client[s].used.owner = s
            /\ client[s].spotify_user = s

\* C12: the cached credential record of a session changes only in a step in
\* which a code exchange succeeded, a refresh was made or the user logged
\* out; menu selection, page rendering, the pages' buttons and chat
\* questions leave it as it is.
C12_OnlyHandlerChangesRecord ==
    [][\A s \in Sessions :
          Get(token', s) # Get(token, s) =>
              \/ run'[s].exchange = "ok"
              \/ run'[s].oks > 0
              \/ run'[s].logout]_vars

\* A chat question was answered from fetched data with a record cached, and
\* nothing was refreshed.
C12_Witness ==
    \E s \in Sessions :
        /\ run[s].button = "Chat AI+pergunta" /\ run[s].calls > 1
        /\ run[s].sent /\ IsRec(token[s]) /\ Attempts(s) = 0

C14_EveryFailureShown == \A s \in Sessions : ~run[s].silent

\* C15 (as claimed): every limit a page passes to get_top_tracks,
\* get_top_artists, get_recently_played or get_playlists is at most the
\* provider's cap, whatever the sliders are set to.
C15_LimitWithinCap ==
    (inp.op = "limit" /\ out # NoOutput) => out.limit <= ProviderCap

\* The value a text has for a key of a dict.
Field(d, key) ==
    d.pairs[CHOOSE i \in DOMAIN d.pairs : d.pairs[i][1] = key][2]

\* What is to come out of safe_serialize: iso says whether a datetime is
\* written by isoformat() or by str(); a track is its to_dict(), any other non-JSON-native leaf its
\* str(), containers keep their shape (tuple and set as list).
RECURSIVE Serialized(_, _)
Serialized(obj, iso) ==
    CASE obj.k = "track" -> to_dict(obj)
      [] obj.k = "datetime" -> IF iso THEN isoformat(obj) ELSE str(obj)
      [] obj.k = "object" -> str(obj)
      [] obj.k \in {"list", "tuple"} ->
            List([i \in DOMAIN obj.items |-> Serialized(obj.items[i], iso)])
      [] obj.k = "set" ->
            List([i \in 1..Cardinality(obj.members) |->
                     Serialized(Listed(obj.members)[i], iso)])
      [] obj.k = "dict" ->
            Dict([i \in DOMAIN obj.pairs |->
                     <<obj.pairs[i][1], Serialized(obj.pairs[i][2], iso)>>])
      [] OTHER -> obj

C17_AnalyzeNeverRaises ==
    (inp.op = "analyze" /\ out # NoOutput) =>
        /\ out.kind = "return"
        /\ inp.gen.kind = "text" => out.value = inp.gen.text
        /\ inp.gen.kind = "raise" => out.value = ErrorPrefix \o inp.gen.exc

\* The generation failed and the error string was returned.
C17_Witness ==
    /\ inp.op = "analyze" /\ out # NoOutput
    /\ inp.gen.kind = "raise" /\ inp.gen.exc = "ConnectionError"
    /\ out = Return("Desculpe, ocorreu um erro: ConnectionError")

\* A text of the form M:SS: decimal minutes, a colon, two digits of seconds
\* below 60; and the seconds it stands for.
Digits == {"0", "1", "2", "3", "4", "5", "6", "7", "8", "9"}
DigitValue(ch) == CHOOSE d \in 0..9 : Digit(d) = <<ch>>
RECURSIVE Number(_)
Number(q) ==
    IF q = <<>> THEN 0
    ELSE 10 * Number(SubSeq(q, 1, Len(q) - 1)) + DigitValue(q[Len(q)])
IsMSS(q) ==
    /\ Len(q) >= 4
    /\ q[Len(q) - 2] = ":"
    /\ \A i \in 1..(Len(q) - 3) : q[i] \in Digits
    /\ Len(q) > 4 => q[1] # "0"
    /\ q[Len(q) - 1] \in {"0", "1", "2", "3", "4", "5"}
    /\ q[Len(q)] \in Digits
SecondsOf(q) ==
    60 * Number(SubSeq(q, 1, Len(q) - 3)) + Number(SubSeq(q, Len(q) - 1, Len(q)))

C19_MissingCredentialsHalt ==
    (~secrets.gemini \/ ~secrets.spotify) =>
        \A s \in Sessions :
            /\ assistant[s] = NoObj /\ ~Authenticated(s)
            /\ run[s].exchange = "none" /\ Attempts(s) = 0 /\ run[s].calls = 0
            /\ ~run[s].login
            /\ Get(token, s) = None
            /\ run[s].end # "idle" => run[s].error /\ run[s].end = "stop"

\* A run has stopped for the missing Spotify credentials.
C19_Witness ==
    /\ secrets.gemini /\ ~secrets.spotify
    /\ run["s1"].end = "stop" /\ run["s1"].error

\* C20: after every script run, a stored assistant has is_authenticated
\* true and the session's cache holds a record; no assistant is stored after
\* a run that ended at the login prompt, at an error stop or with logout.
C20_StoredAssistantIsAuthenticated ==
    \A s \in Sessions :
        /\ assistant[s] # NoObj =>
              assistant[s].is_authenticated /\ IsRec(Get(token, s))
        /\ (run[s].login \/ run[s].end = "stop" \/ run[s].logout) =>
              assistant[s] = NoObj

\* An assistant is stored, a refresh of its record has just been rejected,
\* and the record is still cached.
C20_Witness ==
    \E s \in Sessions :
        Authenticated(s) /\ run[s].fails > 0 /\ IsRec(token[s])

\* C21: the run in which the user logs out makes no API Facade call after
\* the logout and ends at its st.rerun(); every run of the session that
\* follows, until a code exchange succeeds, makes no API Facade call and
\* ends at the login prompt.
C21_NoCallAfterLogout ==
    \A s \in Sessions :
        /\ run[s].logout => run[s].end = "rerun" /\ run[s].calls = 1
        /\ (loggedOut[s] /\ ~run[s].logout /\ run[s].end # "idle") =>
              run[s].calls = 0 /\ run[s].login /\ run[s].end = "stop"

\* The session logged out, came back with a code whose exchange failed, and
\* is at the login prompt again.
C21_Witness ==
    \E s \in Sessions :
        /\ loggedOut[s] /\ ~run[s].logout
        /\ run[s].exchange = "raise" /\ run[s].login /\ run[s].calls = 0

\* C22 (as claimed): a run does not submit for exchange the code that the
\* session's previous run already submitted.
C22_CodeSubmittedOnce ==
    [][\A s \in Sessions :
          (actor' = s /\ run[s].exchange # "none" /\ params[s] # NoCode
               /\ params'[s] = params[s]) =>
              run'[s].exchange = "none"]_vars

\* C23: the chat transcript alternates user, assistant, its length is twice
\* the number of questions processed, and a step of the session only
\* appends to it (a new session starts with an empty one).
C23_TranscriptPaired ==
    /\ [](\A s \in Sessions :
            /\ Len(messages[s]) = 2 * asked[s]
            /\ \A i \in DOMAIN messages[s] :
                  messages[s][i] = IF i % 2 = 1 THEN "user" ELSE "assistant")
    /\ [][\A s \in Sessions :
            issued' = issued =>
                /\ Len(messages'[s]) >= Len(messages[s])
                /\ SubSeq(messages'[s], 1, Len(messages[s])) = messages[s]]_vars

\* Two questions have been processed.
C23_Witness ==
    /\ asked["s1"] = 2
    /\ messages["s1"] = <<"user", "assistant", "user", "assistant">>

\* C24: a run with logout leaves the session without credential record,
\* user_name, user_image, user_id and assistant, and leaves the chat
\* transcript, the query parameters and every other session as they were.
C24_LogoutFrame ==
    [][\A s \in Sessions :
          (actor' = s /\ run'[s].logout) =>
              /\ Get(token', s) = None
              /\ user'[s] = NoUser
              /\ assistant'[s] = NoObj
              /\ messages'[s] = messages[s] /\ asked'[s] = asked[s]
              /\ params'[s] = params[s]
              /\ \A u \in Sessions \ {s} :
                    /\ token'[u] = token[u] /\ user'[u] = user[u]
                    /\ assistant'[u] = assistant[u]
                    /\ messages'[u] = messages[u]]_vars

\* The session has logged out with a transcript of a question and its
\* answer, which is still there.
C24_Witness ==
    \E s \in Sessions :
        /\ run[s].logout /\ assistant[s] = NoObj /\ Get(token, s) = None
        /\ messages[s] = <<"user", "assistant">>

\* C25 (as claimed): the context returned for a question has an entry for
\* every matched keyword group whose fetch succeeded, one entry per group.
C25_EveryGroupKept ==
    (inp.op = "collect" /\ out # NoOutput) =>
        LET kept == inp.q \ inp.failing
        IN  /\ \A g \in kept : \E p \in out.ctx : p[2] = g
            /\ kept # {} => Cardinality(out.ctx) = Cardinality(kept)

\* C26: the fallback fetches are made exactly when no keyword group
\* contributed; then profile is in the context iff its fetch succeeded and
\* general_stats iff the tracks fetch and the artists fetch both succeeded.
C26_Fallback ==
    (inp.op = "collect" /\ out # NoOutput) =>
        LET contributed == inp.q \ inp.failing # {}
            ran(n) == \E i \in DOMAIN out.trace : out.trace[i] = n
            has(k) == \E p \in out.ctx : p[1] = k
        IN  /\ \A n \in Fallbacks : ran(n) <=> ~contributed
            /\ has("profile") <=> (~contributed /\ "profile" \notin inp.failing)
            /\ has("general_stats") <=>
                  (~contributed
                      /\ {"top5_tracks", "top5_artists"} \cap inp.failing = {})

\* The one matched group failed, the fallback ran, and of its three fetches
\* the artists failed: the context holds the profile alone.
C26_Witness ==
    /\ inp.op = "collect" /\ out # NoOutput
    /\ inp.q = {"tracks"} /\ inp.failing = {"tracks", "top5_artists"}
    /\ out.trace = <<"tracks", "profile", "top5_tracks", "top5_artists">>
    /\ out.ctx = {<<"profile", "profile">>}

C28_ProfileFailureTolerated ==
    [][\A s \in Sessions :
          (actor' = s /\ run'[s].profile = "fail" /\ ~run'[s].logout) =>
              /\ Authenticated(s)'
              /\ user'[s].name = "Usuario" /\ user'[s].image = "None"
              /\ IsRec(Get(token', s))
              /\ run'[s].exchange = "none" =>
                    /\ IsRec(token[s]) /\ ~is_token_expired(token[s])
                    /\ token'[s] = token[s]
              /\ ~run'[s].login /\ run'[s].end # "stop"]_vars

\* The record was cached by an earlier run, this run exchanged nothing, its
\* profile fetch failed and the session is authenticated under the default
\* name.
C28_Witness ==
    \E s \in Sessions :
        /\ actor = s /\ run[s].profile = "fail" /\ run[s].exchange = "none"
        /\ ~run[s].logout /\ Authenticated(s)
        /\ IsRec(token[s]) /\ user[s].name = "Usuario" /\ user[s].image = "None"

C30_ConstructionKeepsRecord ==
    /\ [](\A s \in Sessions :
            LET ss == CacheInit(token, s)
            IN  /\ token[s] # NoKey => ss = token
                /\ token[s] = NoKey =>
                      ss = [t \in Sessions |-> IF t = s THEN None ELSE token[t]]
                /\ get_cached_token(ss, s) = Expected(lastMut[s]))
    /\ [][\A s \in Sessions :
            (actor' = s /\ lastMut' = lastMut /\ IsRec(token[s])) =>
                token' = token]_vars

\* A record was put in one session and a handler is constructed there again,
\* and one is constructed in the other session, which has no slot yet.
C30_Witness ==
    \E s, u \in Sessions :
        /\ IsRec(token[s]) /\ lastMut[s] = Put(token[s]) /\ actor = s
        /\ CacheInit(token, s)[s] = token[s]
        /\ token[u] = NoKey /\ CacheInit(token, u)[u] = None

====
